---------------------------- MODULE Spec2Model ----------------------------
(***************************************************************************)
(* A model of simconnect-go: the session's identifier registry             *)
(* (client.SimConnect: GetDefineID, GetEventID), the dispatcher            *)
(* (dispatchFn) and the connector's connect / Start / StartReconnect       *)
(* control loops (connector.go).                                           *)
(*                                                                         *)
(* The specifications share the variables:                                 *)
(*   SpecSession  one open session whose registry operations are called    *)
(*                in any order on any argument type;                       *)
(*   SpecRecord   one call of RegisterDataDefinition, SetData, IsReport or *)
(*                RequestData on an open session, or a registration        *)
(*                followed by SetData, for every record and every status   *)
(*                of the native calls;                                     *)
(*   Spec         one Connector run through Start or StartReconnect;       *)
(*   SpecCycles   Spec with receivers that call the registry of the        *)
(*                session of each connect-cycle;                           *)
(*   SpecTasks    Spec with the goroutines the receivers' Start spawns;    *)
(*   FairSpec     Spec with the fairness the Go runtime gives the          *)
(*                connector's goroutine and its timers;                    *)
(*   FairSelectSpec  FairSpec with a fair choice among the ready cases of  *)
(*                connect's select.                                        *)
(* Durations are in microseconds.                                          *)
(***************************************************************************)
EXTENDS Integers, Sequences, FiniteSets, TLC

VARIABLES
    defineMap,    \* SimConnect.defineMap: shape name -> DWORD, with the "_last" counter key
    lastEventID,  \* SimConnect.lastEventID
    calls,        \* history: the GetDefineID calls of this session, <<[name, id]>>
    eventCalls,   \* history: the identifiers GetEventID returned in this session
    op,           \* the record operation called on the session, with its arguments
    native,       \* history: the native calls the last operation or callback issued
    opRet,        \* how that operation ended and what it returned
    registered,   \* history: the RegisterDataDefinition calls that have returned
    taskPc,       \* position of the goroutine a receiver's Start has spawned
    taskCall,     \* history: the last call that goroutine made, and the session's state then
    caller,       \* the entry point that runs: "Start" or "StartReconnect"
    ctxDone,      \* the caller's (outer) context is cancelled
    rpc,          \* position in StartReconnect / Start
    cpc,          \* position in connect
    cancel2,      \* connect's cancel() of ctx2 has run
    defers,       \* connect's stack of deferred calls, next to run first
    sessOpen,     \* number of sessions opened and not yet closed
    opened,       \* this cycle's client.New succeeded
    closes,       \* number of sc.Close() calls of this cycle
    connRet,      \* what connect returns (NoRet while it runs)
    ri,           \* index of the range loop over c.receivers
    startLog,     \* receivers whose Start has returned in this cycle, in call order
    updLog,       \* receivers whose Update has returned for the last fetched message
    tickerOn,     \* the dispatcher ticker runs
    tick,         \* a tick is pending on dispatcher.C
    tickFetches,  \* GetNextDispatch calls since the last tick was received
    msg,          \* the last result of GetNextDispatch in this cycle
    err,          \* what dispatchFn returned for it
    cbCalls,      \* number of times dispatchFn invoked its callback for it
    bo,           \* the ExponentialBackOff of StartReconnect
    nxt,          \* the delay NextBackOff returned last
    base,         \* the backoff interval that delay was drawn around
    d,            \* the measured duration of the cycle that just ended
    timerFired    \* time.After(nxt) has fired

vars == <<defineMap, lastEventID, calls, eventCalls, op, native, opRet,
          registered, taskPc, taskCall, caller, ctxDone, rpc, cpc,
          cancel2, defers, sessOpen, opened, closes, connRet, ri, startLog,
          updLog, tickerOn, tick, tickFetches, msg, err, cbCalls, bo, nxt,
          base, d, timerFired>>

recordVars == <<op, native, opRet, registered>>

taskVars == <<taskPc, taskCall>>

sessionVars == <<defineMap, lastEventID, calls, eventCalls, recordVars, taskVars>>

connectorVars == <<caller, ctxDone, rpc, cpc, cancel2, defers, sessOpen, opened,
                   closes, connRet, ri, startLog, updLog, tickerOn, tick,
                   tickFetches, msg, err, cbCalls, bo, nxt, base, d, timerFired>>

---------------------------------------------------------------------------
(* Bounds of the model. *)

\* GetDefineID / GetEventID calls explored in one session.
MaxCalls == 4

\* Pointer depth of the values handed to GetDefineID (T, *T, **T).
MaxPtrDepth == 2

\* Receivers registered with the Connector.
NumReceivers == 2

\* Registry calls the receivers make on the session of one connect-cycle.
MaxCycleCalls == 2

\* Calls a receiver makes on its session after the registrations of Start.
MaxReceiverCalls == 3

\* rand.Float64() is drawn from {0, 1/RandSteps, .., (RandSteps-1)/RandSteps}.
RandSteps == 3

---------------------------------------------------------------------------
(* client.SimConnect: the identifier registry. *)

\* The key under which defineMap keeps its next-identifier counter.
LastKey == "_last"

\* Names of the struct types handed to the registry; "" is an unnamed struct.
ShapeNames == {"FuelReport", "FuelRequest", "_last", ""}

\* A Go value's type: `ptrs` pointers deep over a struct type called `name`.
InputTypes == [ptrs : 0..MaxPtrDepth, name : ShapeNames]

\* Variant of New whose registry starts with one identifier taken.
NewDefineMapFromOne == [k \in {LastKey} |-> 1]

\* New: the registry of a fresh session.
NewDefineMap == [k \in {LastKey} |-> 0]

\* reflect.TypeOf(a), one Elem() if it is a pointer, then Name(): a pointer
\* type has no name.
StructName(a) ==
    LET depth == IF a.ptrs > 0 THEN a.ptrs - 1 ELSE 0
    IN  IF depth > 0 THEN "" ELSE a.name

\* The map after s.defineMap[k] = v.
MapSet(m, k, v) == [x \in DOMAIN m \cup {k} |-> IF x = k THEN v ELSE m[x]]

\* GetDefineID's lookup and allocation: the identifier returned and the map left.
GetDefineIDResult(m, structName) ==
    IF structName \in DOMAIN m
    THEN [id |-> m[structName], map |-> m]
    ELSE LET id == m[LastKey]
         IN  [id |-> id, map |-> MapSet(MapSet(m, structName, id), LastKey, id + 1)]

GetDefineID(a) ==
    /\ Len(calls) + Len(eventCalls) < MaxCalls
    /\ LET r == GetDefineIDResult(defineMap, StructName(a))
       IN  /\ defineMap' = r.map
           /\ calls' = Append(calls, [name |-> StructName(a), id |-> r.id])
    /\ UNCHANGED <<lastEventID, eventCalls>>
    /\ UNCHANGED recordVars
    /\ UNCHANGED connectorVars
    /\ UNCHANGED taskVars

\* Variant of GetEventID that draws from the data-definition counter.
GetEventIDSharedCounter ==
    /\ Len(calls) + Len(eventCalls) < MaxCalls
    /\ eventCalls' = Append(eventCalls, defineMap[LastKey])
    /\ defineMap' = MapSet(defineMap, LastKey, defineMap[LastKey] + 1)
    /\ UNCHANGED <<lastEventID, calls>>
    /\ UNCHANGED recordVars
    /\ UNCHANGED connectorVars
    /\ UNCHANGED taskVars

GetEventID ==
    /\ Len(calls) + Len(eventCalls) < MaxCalls
    /\ eventCalls' = Append(eventCalls, lastEventID)
    /\ lastEventID' = lastEventID + 1
    /\ UNCHANGED <<defineMap, calls>>
    /\ UNCHANGED recordVars
    /\ UNCHANGED connectorVars
    /\ UNCHANGED taskVars

---------------------------------------------------------------------------
(* Message kinds and status codes of the native library (client package). *)

RECV_ID_NULL == 0
RECV_ID_EXCEPTION == 1
RECV_ID_OPEN == 2
RECV_ID_QUIT == 3
RECV_ID_EVENT == 4
RECV_ID_SIMOBJECT_DATA_BYTYPE == 9

\* client.E_FAIL is 0x80004005; this is the int32 whose uint32 conversion it is.
E_FAIL_INT32 == -2147467259

\* What GetNextDispatch can hand back: the status r1, the OS error of the
\* call, and the fields of the message ppData points to.
NoMsg == [r1 |-> 0, errno |-> 0, id |-> -1, exception |-> 0, sendID |-> 0,
          eventID |-> 0, defineID |-> 0]

RecvMsg(id, e, r, ev, df) ==
    [r1 |-> 0, errno |-> 0, id |-> id, exception |-> e, sendID |-> r,
     eventID |-> ev, defineID |-> df]

FetchResults ==
    {[r1 |-> s, errno |-> n, id |-> RECV_ID_NULL, exception |-> 0, sendID |-> 0,
      eventID |-> 0, defineID |-> 0] : s \in {E_FAIL_INT32, -1}, n \in {0, 6}}
    \cup {RecvMsg(RECV_ID_EXCEPTION, e, r, 0, 0) : e \in {3, 7}, r \in {42, 5}}
    \cup {RecvMsg(RECV_ID_OPEN, 0, 0, 0, 0)}
    \cup {RecvMsg(RECV_ID_EVENT, 0, 0, ev, 0) : ev \in {0, 1}}
    \cup {RecvMsg(RECV_ID_SIMOBJECT_DATA_BYTYPE, 0, 0, 0, df) : df \in {0, 1}}
    \cup {[RecvMsg(RECV_ID_SIMOBJECT_DATA_BYTYPE, 0, 0, 0, 1) EXCEPT !.r1 = 1]}
    \cup {RecvMsg(k, 0, 0, 0, 0) : k \in {RECV_ID_NULL, RECV_ID_QUIT}}

---------------------------------------------------------------------------
(* Errors: the text fmt.Errorf builds, as the tuple of its parts, and the   *)
(* chain of errors it wraps with %w, which errors.Is searches.              *)

Nil == [text |-> <<>>, chain |-> {}]

\* A wrapped error value: <<type, string value, number, number>>.
ErrGetNextDispatch == <<"ConnectorError", "GetNextDispatch", 0, 0>>

Errno(n) == <<"syscall.Errno", "", n, 0>>

\* errors.Is(err, target)
ErrorsIs(e, target) == target \in e.chain

\* Variant of RecvException.Error that prints the two fields the other way round.
RecvExceptionErrorSwapped(m) ==
    <<"Exception (", m.sendID, "), ReqID (", m.exception, ")">>

\* RecvException.Error: "Exception (%d), ReqID (%d): ..." of e.Exception, e.SendID.
RecvExceptionError(m) ==
    <<"Exception (", m.exception, "), ReqID (", m.sendID, ")">>

\* RecvEventError.Error: "Event: %#v" of e.EventID.
RecvEventErrorError(m) == <<"Event: ", m.eventID>>

\* The error value wrapped for an exception message.
RecvExceptionValue(m) == <<"RecvException", "", m.exception, m.sendID>>

\* The error value wrapped for an event message.
RecvEventErrorValue(m) == <<"RecvEventError", "", m.eventID, 0>>

\* Variant of dispatchFn that returns the open message as an error.
dispatchFnOpenIsError(res) ==
    IF res.r1 < 0
    THEN IF res.r1 = E_FAIL_INT32
         THEN [err |-> [text |-> <<"GetNextDispatch error E_FAIL: ", res.r1, Errno(res.errno)>>,
                        chain |-> {Errno(res.errno)}],
               call |-> FALSE]
         ELSE [err |-> [text |-> <<"GetNextDispatch error: ", res.r1, "GetNextDispatch">>,
                        chain |-> {ErrGetNextDispatch}],
               call |-> FALSE]
    ELSE CASE res.id = RECV_ID_EXCEPTION ->
                [err |-> [text |-> <<"SIMCONNECT_RECV_ID_EXCEPTION: ">> \o RecvExceptionError(res),
                          chain |-> {RecvExceptionValue(res)}],
                 call |-> FALSE]
           [] res.id = RECV_ID_OPEN ->
                [err |-> [text |-> <<"SIMCONNECT_RECV_ID_OPEN ">>, chain |-> {<<"RecvOpen", "", 0, 0>>}],
                 call |-> FALSE]
           [] res.id = RECV_ID_EVENT ->
                [err |-> [text |-> <<"SIMCONNECT_RECV_ID_EVENT ">> \o RecvEventErrorError(res),
                          chain |-> {RecvEventErrorValue(res)}],
                 call |-> FALSE]
           [] res.id = RECV_ID_SIMOBJECT_DATA_BYTYPE ->
                [err |-> Nil, call |-> TRUE]
           [] OTHER ->
                [err |-> [text |-> <<"recvInfo.dwID unknown: ", res.id>>, chain |-> {}],
                 call |-> FALSE]

\* dispatchFn on one GetNextDispatch result: the error it returns unless it
\* invokes fn (call), in which case it returns what fn returns.
\* Variant of dispatchFn that wraps ErrGetNextDispatch for E_FAIL too.
dispatchFnEFailFatal(res) ==
    IF res.r1 < 0
    THEN IF res.r1 = E_FAIL_INT32
         THEN [err |-> [text |-> <<"GetNextDispatch error E_FAIL: ", res.r1, "GetNextDispatch">>,
                        chain |-> {ErrGetNextDispatch}],
               call |-> FALSE]
         ELSE [err |-> [text |-> <<"GetNextDispatch error: ", res.r1, "GetNextDispatch">>,
                        chain |-> {ErrGetNextDispatch}],
               call |-> FALSE]
    ELSE CASE res.id = RECV_ID_EXCEPTION ->
                [err |-> [text |-> <<"SIMCONNECT_RECV_ID_EXCEPTION: ">> \o RecvExceptionError(res),
                          chain |-> {RecvExceptionValue(res)}],
                 call |-> FALSE]
           [] res.id = RECV_ID_OPEN ->
                [err |-> Nil, call |-> FALSE]
           [] res.id = RECV_ID_EVENT ->
                [err |-> [text |-> <<"SIMCONNECT_RECV_ID_EVENT ">> \o RecvEventErrorError(res),
                          chain |-> {RecvEventErrorValue(res)}],
                 call |-> FALSE]
           [] res.id = RECV_ID_SIMOBJECT_DATA_BYTYPE ->
                [err |-> Nil, call |-> TRUE]
           [] OTHER ->
                [err |-> [text |-> <<"recvInfo.dwID unknown: ", res.id>>, chain |-> {}],
                 call |-> FALSE]

dispatchFn(res) ==
    IF res.r1 < 0
    THEN IF res.r1 = E_FAIL_INT32
         THEN [err |-> [text |-> <<"GetNextDispatch error E_FAIL: ", res.r1, Errno(res.errno)>>,
                        chain |-> {Errno(res.errno)}],
               call |-> FALSE]
         ELSE [err |-> [text |-> <<"GetNextDispatch error: ", res.r1, "GetNextDispatch">>,
                        chain |-> {ErrGetNextDispatch}],
               call |-> FALSE]
    ELSE CASE res.id = RECV_ID_EXCEPTION ->
                [err |-> [text |-> <<"SIMCONNECT_RECV_ID_EXCEPTION: ">> \o RecvExceptionError(res),
                          chain |-> {RecvExceptionValue(res)}],
                 call |-> FALSE]
           [] res.id = RECV_ID_OPEN ->
                [err |-> Nil, call |-> FALSE]
           [] res.id = RECV_ID_EVENT ->
                [err |-> [text |-> <<"SIMCONNECT_RECV_ID_EVENT ">> \o RecvEventErrorError(res),
                          chain |-> {RecvEventErrorValue(res)}],
                 call |-> FALSE]
           [] res.id = RECV_ID_SIMOBJECT_DATA_BYTYPE ->
                [err |-> Nil, call |-> TRUE]
           [] OTHER ->
                [err |-> [text |-> <<"recvInfo.dwID unknown: ", res.id>>, chain |-> {}],
                 call |-> FALSE]

---------------------------------------------------------------------------
(* The exponential backoff StartReconnect uses (backoff.ExponentialBackOff  *)
(* with its default settings), in microseconds.                            *)

Second == 1000000
DefaultInitialInterval == 500000
DefaultMaxInterval == 60000000
DefaultMaxElapsedTime == 900000000
\* Multiplier 1.5 and RandomizationFactor 0.5, as fractions.
MultiplierNum == 3
MultiplierDen == 2
RandomizationDen == 2
\* backoff.Stop
Stop == -1

\* 90*time.Second
ResetThreshold == 90 * Second

\* How long a connect-cycle can have lasted, and what the backoff's clock can
\* show since its last Reset.
RunDurations == {Second, ResetThreshold, ResetThreshold + 1}
ElapsedTimes == {0, DefaultMaxElapsedTime + 60 * Second}
Randoms == 0..(RandSteps - 1)

NewExponentialBackOff ==
    [currentInterval |-> DefaultInitialInterval, maxElapsedTime |-> DefaultMaxElapsedTime]

\* Variant of the backoff set-up that keeps the default MaxElapsedTime.
NewReconnectBackOffDefault == NewExponentialBackOff

\* bo := backoff.NewExponentialBackOff(); bo.MaxElapsedTime = 0
NewReconnectBackOff == [NewExponentialBackOff EXCEPT !.maxElapsedTime = 0]

\* bo.Reset()
Reset(b) == [b EXCEPT !.currentInterval = DefaultInitialInterval]

\* getRandomValueFromInterval with random = k/RandSteps:
\* min + random * (max - min + 1), min = cur - cur/2, max = cur + cur/2.
getRandomValueFromInterval(k, cur) ==
    (RandSteps * cur + RandomizationDen * k * (cur + 1)) \div (RandomizationDen * RandSteps)

incrementCurrentInterval(cur) ==
    IF cur * MultiplierNum >= DefaultMaxInterval * MultiplierDen
    THEN DefaultMaxInterval
    ELSE (cur * MultiplierNum) \div MultiplierDen

\* bo.NextBackOff(): the delay (or Stop) and the backoff state left.
NextBackOff(b, k, elapsed) ==
    LET next == getRandomValueFromInterval(k, b.currentInterval)
    IN  [delay |-> IF b.maxElapsedTime # 0 /\ elapsed + next > b.maxElapsedTime
                   THEN Stop ELSE next,
         bo |-> [b EXCEPT !.currentInterval = incrementCurrentInterval(b.currentInterval)]]

---------------------------------------------------------------------------
(* The Connector. *)

\* Variant of WithReceiver that puts the new receiver first.
WithReceiverPrepend(rs, r) == <<r>> \o rs

\* WithReceiver: c.receivers = append(c.receivers, r)
WithReceiver(rs, r) == Append(rs, r)

RECURSIVE ApplyOptions(_, _)
\* NewConnector: for _, o := range opts { o(c) }
ApplyOptions(rs, opts) ==
    IF opts = <<>> THEN rs
    ELSE ApplyOptions(WithReceiver(rs, Head(opts)), Tail(opts))

\* The receivers in the order their WithReceiver options are given.
Registered == [i \in 1..NumReceivers |-> i]

\* c.receivers
receivers == ApplyOptions(<<>>, Registered)

\* What client.New can meet: whether a DLL is there, and SimConnect_Open's status.
NewInputs == [dll : BOOLEAN, r1 : {0, -1, E_FAIL_INT32}]

\* client.New returns an error: no DLL, or SimConnect_Open's int32 status is negative.
NewFails(in) == ~in.dll \/ in.r1 < 0

\* Variant of connect that does not defer sc.Close().
DeferCloseMissing(ds) == ds

\* defer func() { sc.Close() }(): pushed on the stack of deferred calls.
DeferClose(ds) == <<"close">> \o ds

\* Variant of the reconnect loop's first select that never looks at ctx.
TopSelectNoCheck(done) == "start"

\* StartReconnect's first select: ctx.Done() if it is ready, else the default.
TopSelect(done) == IF done THEN "return" ELSE "start"

\* StartReconnect's second select: the cases that are ready.
WaitSelect(done, fired) ==
    {b \in {"return", "reconnect"} :
        (b = "return" /\ done) \/ (b = "reconnect" /\ fired)}

\* Variant of connect's select without the ctx.Done() case.
PollSelectTickOnly(done, ticked) ==
    {b \in {"dispatch"} : ticked}

\* connect's select: the cases that are ready.
PollSelect(done, ticked) ==
    {b \in {"return", "dispatch"} :
        (b = "return" /\ done) \/ (b = "dispatch" /\ ticked)}

\* Variant of connect's error check that ends the cycle on every error.
DispatchErrorIsFatalAny(e) == e # Nil

\* connect ends the cycle on err: err != nil && errors.Is(err, ErrGetNextDispatch)
DispatchErrorIsFatal(e) == e # Nil /\ ErrorsIs(e, ErrGetNextDispatch)

\* Variant of the reset test with the comparison the wrong way round.
ShouldResetInverted(dur) == dur < ResetThreshold

\* Variant of the reset test that resets at 90 seconds already.
ShouldResetAtThreshold(dur) == dur >= ResetThreshold

\* d > 90*time.Second
ShouldReset(dur) == dur > ResetThreshold

\* Variant of the step after a non-fatal dispatch that fetches again at once.
AfterDispatchRefetch(e) == IF DispatchErrorIsFatal(e) THEN "defer" ELSE "dispatch"

\* Where connect goes after dispatchFn returned e: out of the loop, or back to the select.
AfterDispatch(e) == IF DispatchErrorIsFatal(e) THEN "defer" ELSE "poll"

\* ctx2, derived from ctx by context.WithCancel, is cancelled.
\* Variant of ctx2 that is not derived from the caller's context.
ctx2DoneDetached == cancel2

\* ctx2, cancel := context.WithCancel(ctx): ctx2 is done when ctx is done or
\* cancel has been called.
ctx2Done == ctxDone \/ cancel2

\* Variant of Start that goes on to another attempt after connect returns.
AfterStartRetry(who) == "start"

\* Where control goes when connect has returned to Start: Start returns, to
\* its caller or into StartReconnect's loop.
AfterStart(who) == IF who = "Start" THEN "returned" ELSE "after"

\* The outer context is cancelled by its owner.
Cancel ==
    /\ rpc # "returned"
    /\ ~ctxDone
    /\ ctxDone' = TRUE
    /\ UNCHANGED <<caller, rpc, cpc, cancel2, defers, sessOpen, opened, closes,
                   connRet, ri, startLog, updLog, tickerOn, tick, tickFetches,
                   msg, err, cbCalls, bo, nxt, base, d, timerFired>>
    /\ UNCHANGED sessionVars

\* The timer of time.After(nxt) fires.
TimerFire ==
    /\ rpc = "wait"
    /\ ~timerFired
    /\ timerFired' = TRUE
    /\ UNCHANGED <<caller, ctxDone, rpc, cpc, cancel2, defers, sessOpen, opened,
                   closes, connRet, ri, startLog, updLog, tickerOn, tick,
                   tickFetches, msg, err, cbCalls, bo, nxt, base, d>>
    /\ UNCHANGED sessionVars

\* The dispatcher ticker puts a tick on its channel (of capacity one).
TickerFire ==
    /\ tickerOn
    /\ ~tick
    /\ tick' = TRUE
    /\ UNCHANGED <<caller, ctxDone, rpc, cpc, cancel2, defers, sessOpen, opened,
                   closes, connRet, ri, startLog, updLog, tickerOn, tickFetches,
                   msg, err, cbCalls, bo, nxt, base, d, timerFired>>
    /\ UNCHANGED sessionVars

\* StartReconnect, top of the loop: return if ctx is done, else c.Start(ctx).
ReconnectTop ==
    /\ caller = "StartReconnect"
    /\ rpc = "top"
    /\ IF TopSelect(ctxDone) = "return"
       THEN rpc' = "returned" /\ cpc' = cpc
       ELSE rpc' = "start" /\ cpc' = "new"
    /\ UNCHANGED <<caller, ctxDone, cancel2, defers, sessOpen, opened, closes,
                   connRet, ri, startLog, updLog, tickerOn, tick, tickFetches,
                   msg, err, cbCalls, bo, nxt, base, d, timerFired>>
    /\ UNCHANGED sessionVars

\* The goroutine has made no call.
NoTaskCall == [state |-> "none", native |-> <<>>]

\* connect, up to the receivers' loop: ctx2 and its deferred cancel, client.New,
\* the early return on its error, the deferred Close.
\* A goroutine spawned in an earlier cycle holds that cycle's ctx2 and
\* session, which the variables describe no longer: it is followed up to here.
ConnectOpen ==
    /\ rpc = "start"
    /\ cpc = "new"
    /\ \E in \in NewInputs :
         IF NewFails(in)
         THEN /\ connRet' = "cannot connect"
              /\ cpc' = "defer"
              /\ defers' = <<"cancel">>
              /\ opened' = FALSE
              /\ sessOpen' = sessOpen
         ELSE /\ connRet' = "none"
              /\ cpc' = "starting"
              /\ defers' = DeferClose(<<"cancel">>)
              /\ opened' = TRUE
              /\ sessOpen' = sessOpen + 1
    /\ cancel2' = FALSE
    /\ closes' = 0
    /\ ri' = 1
    /\ defineMap' = NewDefineMap
    /\ lastEventID' = 0
    /\ calls' = <<>>
    /\ eventCalls' = <<>>
    /\ native' = <<>>
    /\ registered' = <<>>
    /\ taskPc' = "none"
    /\ taskCall' = NoTaskCall
    /\ UNCHANGED <<op, opRet>>
    /\ UNCHANGED <<caller, ctxDone, rpc, startLog, updLog, tickerOn, tick,
                   tickFetches, msg, err, cbCalls, bo, nxt, base, d, timerFired>>

\* for _, r := range c.receivers { r.Start(ctx2, sc) }: connect's side of one
\* call, returned.
StartCalled ==
    /\ cpc = "starting"
    /\ ri <= Len(receivers)
    /\ startLog' = Append(startLog, receivers[ri])
    /\ ri' = ri + 1
    /\ UNCHANGED <<caller, ctxDone, rpc, cpc, cancel2, defers, sessOpen, opened,
                   closes, connRet, updLog, tickerOn, tick, tickFetches, msg,
                   err, cbCalls, bo, nxt, base, d, timerFired>>

\* r.Start(ctx2, sc) of a Receiver that makes no call on the session.
ReceiverStart ==
    /\ StartCalled
    /\ UNCHANGED sessionVars

\* dispatcher := time.NewTicker(c.cycle); defer dispatcher.Stop()
NewTicker ==
    /\ cpc = "starting"
    /\ ri > Len(receivers)
    /\ tickerOn' = TRUE
    /\ tick' = FALSE
    /\ defers' = <<"stop">> \o defers
    /\ cpc' = "poll"
    /\ UNCHANGED <<caller, ctxDone, rpc, cancel2, sessOpen, opened, closes,
                   connRet, ri, startLog, updLog, tickFetches, msg, err,
                   cbCalls, bo, nxt, base, d, timerFired>>
    /\ UNCHANGED sessionVars

\* connect's select: return nil on ctx.Done(), or take the tick and dispatch.
Poll ==
    /\ cpc = "poll"
    /\ \E b \in PollSelect(ctxDone, tick) :
         IF b = "return"
         THEN /\ connRet' = "nil"
              /\ cpc' = "defer"
              /\ UNCHANGED <<tick, tickFetches>>
         ELSE /\ tick' = FALSE
              /\ tickFetches' = 0
              /\ cpc' = "dispatch"
              /\ connRet' = connRet
    /\ UNCHANGED <<caller, ctxDone, rpc, cancel2, defers, sessOpen, opened,
                   closes, ri, startLog, updLog, tickerOn, msg, err, cbCalls,
                   bo, nxt, base, d, timerFired>>
    /\ UNCHANGED sessionVars

\* dispatchFn: one GetNextDispatch and its classification, up to the call of fn.
Dispatch ==
    /\ cpc = "dispatch"
    /\ \E res \in FetchResults :
         LET out == dispatchFn(res)
         IN  /\ msg' = res
             /\ err' = out.err
             /\ cbCalls' = IF out.call THEN 1 ELSE 0
             /\ cpc' = IF out.call THEN "update" ELSE "handle"
    /\ tickFetches' = tickFetches + 1
    /\ updLog' = <<>>
    /\ ri' = 1
    /\ UNCHANGED <<caller, ctxDone, rpc, cancel2, defers, sessOpen, opened,
                   closes, connRet, startLog, tickerOn, tick, bo, nxt, base, d,
                   timerFired>>
    /\ UNCHANGED sessionVars

\* fn: for _, r := range c.receivers { r.Update(ctx2, sc, x) }: connect's side
\* of one call, returned.
UpdateCalled ==
    /\ cpc = "update"
    /\ ri <= Len(receivers)
    /\ updLog' = Append(updLog, [r |-> receivers[ri], defineID |-> msg.defineID])
    /\ ri' = ri + 1
    /\ UNCHANGED <<caller, ctxDone, rpc, cpc, cancel2, defers, sessOpen, opened,
                   closes, connRet, startLog, tickerOn, tick, tickFetches, msg,
                   err, cbCalls, bo, nxt, base, d, timerFired>>

\* r.Update(ctx2, sc, x) of a Receiver that makes no call on the session.
ReceiverUpdate ==
    /\ UpdateCalled
    /\ UNCHANGED sessionVars

\* fn returns nil, and dispatchFn returns that.
UpdateDone ==
    /\ cpc = "update"
    /\ ri > Len(receivers)
    /\ err' = Nil
    /\ cpc' = "handle"
    /\ UNCHANGED <<caller, ctxDone, rpc, cancel2, defers, sessOpen, opened,
                   closes, connRet, ri, startLog, updLog, tickerOn, tick,
                   tickFetches, msg, cbCalls, bo, nxt, base, d, timerFired>>
    /\ UNCHANGED sessionVars

\* connect's check of dispatchFn's error: return it wrapped, or go on ticking.
HandleDispatch ==
    /\ cpc = "handle"
    /\ cpc' = AfterDispatch(err)
    /\ connRet' = IF DispatchErrorIsFatal(err) THEN "cannot dispatch" ELSE connRet
    /\ UNCHANGED <<caller, ctxDone, rpc, cancel2, defers, sessOpen, opened,
                   closes, ri, startLog, updLog, tickerOn, tick, tickFetches,
                   msg, err, cbCalls, bo, nxt, base, d, timerFired>>
    /\ UNCHANGED sessionVars

\* connect returns: the next deferred call runs (last deferred first).
RunDefer ==
    /\ cpc = "defer"
    /\ defers # <<>>
    /\ defers' = Tail(defers)
    /\ tickerOn' = IF Head(defers) = "stop" THEN FALSE ELSE tickerOn
    /\ tick' = IF Head(defers) = "stop" THEN FALSE ELSE tick
    /\ closes' = IF Head(defers) = "close" THEN closes + 1 ELSE closes
    /\ sessOpen' = IF Head(defers) = "close" THEN sessOpen - 1 ELSE sessOpen
    /\ cancel2' = IF Head(defers) = "cancel" THEN TRUE ELSE cancel2
    /\ UNCHANGED <<caller, ctxDone, rpc, cpc, opened, connRet, ri, startLog,
                   updLog, tickFetches, msg, err, cbCalls, bo, nxt, base, d,
                   timerFired>>
    /\ UNCHANGED sessionVars

\* connect has returned to Start, which logs the error, and Start to its caller.
ConnectReturn ==
    /\ cpc = "defer"
    /\ defers = <<>>
    /\ cpc' = "idle"
    /\ rpc' = AfterStart(caller)
    /\ opened' = FALSE
    /\ closes' = 0
    /\ ri' = 1
    /\ startLog' = <<>>
    /\ updLog' = <<>>
    /\ tickFetches' = 0
    /\ msg' = NoMsg
    /\ err' = Nil
    /\ cbCalls' = 0
    /\ UNCHANGED <<caller, ctxDone, cancel2, defers, sessOpen, connRet,
                   tickerOn, tick, bo, nxt, base, d, timerFired>>
    /\ UNCHANGED sessionVars

\* StartReconnect after c.Start: measure the run, reset the backoff after a
\* long one, draw the next delay, return on Stop.
ReconnectBackoff ==
    /\ caller = "StartReconnect"
    /\ rpc = "after"
    /\ \E dur \in RunDurations, k \in Randoms, elapsed \in ElapsedTimes :
         LET b1 == IF ShouldReset(dur) THEN Reset(bo) ELSE bo
             nb == NextBackOff(b1, k, elapsed)
         IN  /\ d' = dur
             /\ bo' = nb.bo
             /\ nxt' = nb.delay
             /\ base' = b1.currentInterval
             /\ rpc' = IF nb.delay = Stop THEN "returned" ELSE "wait"
    /\ timerFired' = FALSE
    /\ UNCHANGED <<caller, ctxDone, cpc, cancel2, defers, sessOpen, opened,
                   closes, connRet, ri, startLog, updLog, tickerOn, tick,
                   tickFetches, msg, err, cbCalls>>
    /\ UNCHANGED sessionVars

\* StartReconnect's wait: return on ctx.Done(), or loop when the delay is over.
ReconnectWait ==
    /\ caller = "StartReconnect"
    /\ rpc = "wait"
    /\ \E b \in WaitSelect(ctxDone, timerFired) :
         rpc' = IF b = "return" THEN "returned" ELSE "top"
    /\ d' = 0
    /\ UNCHANGED <<caller, ctxDone, cpc, cancel2, defers, sessOpen, opened,
                   closes, connRet, ri, startLog, updLog, tickerOn, tick,
                   tickFetches, msg, err, cbCalls, bo, nxt, base, timerFired>>
    /\ UNCHANGED sessionVars

---------------------------------------------------------------------------
(* client.SimConnect and utils.go: the record operations                   *)
(* RegisterDataDefinition, SetData and IsReport.                           *)

\* Fields of the records explored.
MaxFields == 3

\* Names of the record types handed to the record operations.
RecordNames == {"FuelReport", "FuelRequest"}

\* Status r1 of a native call: S_OK or a failure.
Statuses == {0, -1}

\* A struct field: its `name` and `unit` tags, the Kind of its type, the
\* length of an array type and the value of a float64 field.
Field(nameTag, unitTag, kind, len, value) ==
    [nameTag |-> nameTag, unitTag |-> unitTag, kind |-> kind, len |-> len,
     value |-> value]

\* The fields records are built of: an embedded client.RecvSimobjectDataByType
\* and a float64 without tags, and tagged float64, [256]byte and int32 fields.
FieldDecls ==
    {Field("", "", "struct", 0, 0), Field("", "", "float64", 0, 3)}
    \cup {Field("FUEL TANK LEFT MAIN QUANTITY", "gallons", "float64", 0, v) :
             v \in {1, 2}}
    \cup {Field("TITLE", "", "array", 256, 0),
          Field("SIM ON GROUND", "bool", "int32", 0, 0)}

\* The values handed to RegisterDataDefinition and SetData: a struct, or a
\* pointer to one.
Records ==
    [ptrs : {0, 1}, name : RecordNames,
     fields : UNION {[1..n -> FieldDecls] : n \in 0..MaxFields}]

\* reflect.TypeOf(a)
TypeOf(a) == [ptrs |-> a.ptrs, name |-> a.name]

\* if v.Kind() == reflect.Ptr { v = v.Elem() }
ValueElem(a) == IF a.ptrs > 0 THEN [a EXCEPT !.ptrs = a.ptrs - 1] ELSE a

\* v.NumField()
NumField(v) == Len(v.fields)

\* v.Field(j), v.Type().Field(j): Go counts fields from 0.
FieldAt(v, j) == v.fields[j + 1]

\* The identifier of the user's aircraft.
OBJECT_ID_USER == 0

\* How an operation ended: not yet, by returning, or by a panic.
NoView == [type |-> "", ppData |-> NoMsg]

Pending == [state |-> "pending", err |-> Nil, ok |-> FALSE, view |-> NoView]

Returned(e) == [state |-> "returned", err |-> e, ok |-> FALSE, view |-> NoView]

\* &buf[0] on an empty slice.
IndexOutOfRange ==
    [text |-> <<"runtime error: index out of range [0] with length 0">>,
     chain |-> {}]

Panicked(e) == [state |-> "panicked", err |-> e, ok |-> FALSE, view |-> NoView]

\* No record operation is in progress.
NoOp == [name |-> "none"]

\* fieldType: the Kind's name, or "[%d]byte" with the length of an array.
FieldType(f) == IF f.kind = "array" THEN <<"[%d]byte", f.len>> ELSE <<f.kind, 0>>

\* derefDataType: float64 and fixed-size byte arrays have a data type, no
\* other field type has.
derefDataType(fieldType) ==
    IF fieldType = <<"float64", 0>>
    THEN [dataType |-> <<"DATATYPE_FLOAT64", 0>>, err |-> Nil]
    ELSE IF fieldType[1] = "[%d]byte"
    THEN [dataType |-> <<"DATATYPE_STRING", fieldType[2]>>, err |-> Nil]
    ELSE [dataType |-> <<"", 0>>,
          err |-> [text |-> <<"DATATYPE not implemented: ", fieldType[1]>>,
                   chain |-> {}]]

\* AddToDataDefinition for field j: the native call, its status r1 and the
\* error returned for it.
AddToDataDefinition(j, defineID, name, unit, dataType, r1) ==
    [fn |-> "SimConnect_AddToDataDefinition", field |-> j, defineID |-> defineID,
     name |-> name, unit |-> unit, dataType |-> dataType, r1 |-> r1,
     err |-> IF r1 < 0
             THEN [text |-> <<"SimConnect_AddToDataDefinition for ", name,
                              " error: ", r1>>,
                   chain |-> {}]
             ELSE Nil]

\* Variant of the name-tag test that accepts every field.
MissingNameTagNever(nameTag) == FALSE

\* if nameTag == ""
MissingNameTag(nameTag) == nameTag = ""

\* The loop of RegisterDataDefinition from field j on: the native calls added
\* to log and the value returned.  r1s[k] is the status of the k-th call; the
\* error AddToDataDefinition returns is dropped.
RECURSIVE RegisterFields(_, _, _, _, _)
RegisterFields(v, defineID, j, r1s, log) ==
    IF j >= NumField(v)
    THEN [native |-> log, err |-> Nil]
    ELSE LET f == FieldAt(v, j)
             dt == derefDataType(FieldType(f))
         IN  IF MissingNameTag(f.nameTag)
             THEN [native |-> log,
                   err |-> [text |-> <<j, " name tag not found">>, chain |-> {}]]
             ELSE IF dt.err # Nil
             THEN [native |-> log, err |-> dt.err]
             ELSE RegisterFields(v, defineID, j + 1, r1s,
                     Append(log, AddToDataDefinition(j, defineID, f.nameTag,
                                    f.unitTag, dt.dataType, r1s[Len(log) + 1])))

\* Variant of the untagged test that skips no field.
UntaggedNever(f) == FALSE

\* if name == "" { continue }
Untagged(f) == f.nameTag = ""

\* Variant of the float64 test that accepts every kind.
NotFloat64Never(f) == FALSE

\* if field.Type.Kind() != reflect.Float64
NotFloat64(f) == f.kind # "float64"

\* The loop of SetData from field i on: the buffer left, or the error.
RECURSIVE EncodeFields(_, _, _)
EncodeFields(val, i, buf) ==
    IF i >= NumField(val)
    THEN [buf |-> buf, err |-> Nil]
    ELSE LET field == FieldAt(val, i)
         IN  IF Untagged(field)
             THEN EncodeFields(val, i + 1, buf)
             ELSE IF NotFloat64(field)
             THEN [buf |-> buf,
                   err |-> [text |-> <<"not a float64: ", i, " -- ", field.kind>>,
                            chain |-> {}]]
             ELSE EncodeFields(val, i + 1, Append(buf, field.value))

\* SetDataOnSimObject: the native call, its status r1 and the error returned.
SetDataOnSimObject(defineID, simobjectType, flags, arrayCount, size, buf, r1) ==
    [fn |-> "SimConnect_SetDataOnSimObject", defineID |-> defineID,
     objectID |-> simobjectType, flags |-> flags, arrayCount |-> arrayCount,
     size |-> size, data |-> buf, r1 |-> r1,
     err |-> IF r1 < 0
             THEN [text |-> <<"SimConnect_SetDataOnSimObject for defineID ",
                              defineID, " error: ", r1>>,
                   chain |-> {}]
             ELSE Nil]

\* SetData after GetDefineID: the native calls and how it ends.
SetDataFrom(fr, defineId, r1) ==
    LET e == EncodeFields(ValueElem(fr), 0, <<>>)
        size == Len(e.buf) * 8
        call == SetDataOnSimObject(defineId, OBJECT_ID_USER, 0, 0, size, e.buf, r1)
    IN  IF e.err # Nil
        THEN [native |-> <<>>, ret |-> Returned(e.err)]
        ELSE IF Len(e.buf) = 0
        THEN [native |-> <<>>, ret |-> Panicked(IndexOutOfRange)]
        ELSE [native |-> <<call>>, ret |-> Returned(call.err)]

\* Variant of the identifier test that accepts every message.
SameDefineIDAlways(ppData, defineId) == TRUE

\* if ppData.DefineID == defineId
SameDefineID(ppData, defineId) == ppData.defineID = defineId

\* var typed *T
TypedNil(T) == [ptrs |-> T.ptrs + 1, name |-> T.name]

\* The messages handed to IsReport.
Reports == {RecvMsg(RECV_ID_SIMOBJECT_DATA_BYTYPE, 0, 0, 0, df) : df \in 0..2}

\* The type parameters of IsReport.
ReportTypes == [ptrs : {0}, name : RecordNames]

\* The object type of the user's aircraft.
SIMOBJECT_TYPE_USER == 0

\* RequestDataOnSimObjectType: the native call, its status r1 and the error
\* returned.
RequestDataOnSimObjectType(requestID, defineID, radius, simobjectType, r1) ==
    [fn |-> "SimConnect_RequestDataOnSimObjectType", requestID |-> requestID,
     defineID |-> defineID, radius |-> radius, objectType |-> simobjectType,
     r1 |-> r1,
     err |-> IF r1 < 0
             THEN [text |-> <<"SimConnect_RequestDataOnSimObjectType for requestID ",
                              requestID, " defineID ", defineID, " error: ", r1>>,
                   chain |-> {}]
             ELSE Nil]

\* The registry and its history after GetDefineID was called for `names`.
RECURSIVE AfterCalls(_, _, _)
AfterCalls(m, h, names) ==
    IF Len(names) = 0
    THEN [map |-> m, calls |-> h]
    ELSE LET g == GetDefineIDResult(m, Head(names))
         IN  AfterCalls(g.map, Append(h, [name |-> Head(names), id |-> g.id]),
                        Tail(names))

\* The GetDefineID calls a session has seen before the operation.
PriorCalls ==
    {<<>>, <<"FuelReport">>, <<"FuelRequest">>, <<"FuelReport", "FuelRequest">>,
     <<"FuelRequest", "FuelReport">>}

RegisterDataDefinition ==
    /\ op.name = "RegisterDataDefinition"
    /\ opRet.state = "pending"
    /\ LET g == GetDefineIDResult(defineMap, StructName(TypeOf(op.a)))
           r == RegisterFields(ValueElem(op.a), g.id, 1, op.r1s, <<>>)
       IN  /\ defineMap' = g.map
           /\ calls' = Append(calls, [name |-> StructName(TypeOf(op.a)), id |-> g.id])
           /\ native' = r.native
           /\ opRet' = Returned(r.err)
           /\ registered' = Append(registered, [a |-> op.a, id |-> g.id,
                                                adds |-> r.native, err |-> r.err])
    /\ UNCHANGED <<lastEventID, eventCalls, op>>
    /\ UNCHANGED connectorVars
    /\ UNCHANGED taskVars

SetData ==
    /\ op.name = "SetData"
    /\ opRet.state = "pending"
    /\ LET g == GetDefineIDResult(defineMap, StructName(TypeOf(op.fr)))
           r == SetDataFrom(op.fr, g.id, op.r1)
       IN  /\ defineMap' = g.map
           /\ calls' = Append(calls, [name |-> StructName(TypeOf(op.fr)), id |-> g.id])
           /\ native' = r.native
           /\ opRet' = r.ret
    /\ UNCHANGED <<lastEventID, eventCalls, op, registered>>
    /\ UNCHANGED connectorVars
    /\ UNCHANGED taskVars

IsReport ==
    /\ op.name = "IsReport"
    /\ opRet.state = "pending"
    /\ LET g == GetDefineIDResult(defineMap, StructName(TypedNil(op.T)))
       IN  /\ defineMap' = g.map
           /\ calls' = Append(calls, [name |-> StructName(TypedNil(op.T)), id |-> g.id])
           /\ opRet' = IF SameDefineID(op.ppData, g.id)
                       THEN [state |-> "returned", err |-> Nil, ok |-> TRUE,
                             view |-> [type |-> op.T.name, ppData |-> op.ppData]]
                       ELSE Returned(Nil)
    /\ UNCHANGED <<lastEventID, eventCalls, op, native, registered>>
    /\ UNCHANGED connectorVars
    /\ UNCHANGED taskVars

\* RequestData[T]: var report *T, GetDefineID(report), and the request with
\* the definition identifier as request identifier.
RequestData ==
    /\ op.name = "RequestData"
    /\ opRet.state = "pending"
    /\ LET g == GetDefineIDResult(defineMap, StructName(TypedNil(op.T)))
           reqId == g.id
           call == RequestDataOnSimObjectType(reqId, g.id, 0, SIMOBJECT_TYPE_USER, op.r1)
       IN  /\ defineMap' = g.map
           /\ calls' = Append(calls, [name |-> StructName(TypedNil(op.T)), id |-> g.id])
           /\ native' = <<call>>
           /\ opRet' = Returned(call.err)
    /\ UNCHANGED <<lastEventID, eventCalls, op, registered>>
    /\ UNCHANGED connectorVars
    /\ UNCHANGED taskVars

\* -gals: the gallons refuel sets each main tank to.
Gals == 20

\* The embedded client.RecvSimobjectDataByType of fuelhack's records.
Envelope == Field("", "", "struct", 0, 0)

\* A float64 field of fuelhack's records, tagged with a name and Gallons.
Tank(name, value) == Field(name, "Gallons", "float64", 0, value)

\* &FuelReport{}
FuelReport ==
    [ptrs |-> 1, name |-> "FuelReport",
     fields |-> <<Envelope,
                  Tank("FUEL TANK CENTER QUANTITY", 0),
                  Tank("FUEL TANK CENTER2 QUANTITY", 0),
                  Tank("FUEL TANK CENTER3 QUANTITY", 0),
                  Tank("FUEL TANK EXTERNAL1 QUANTITY", 0),
                  Tank("FUEL TANK EXTERNAL2 QUANTITY", 0),
                  Tank("FUEL TANK LEFT MAIN QUANTITY", 0),
                  Tank("FUEL TANK LEFT AUX QUANTITY", 0),
                  Tank("FUEL TANK LEFT TIP QUANTITY", 0),
                  Tank("FUEL TANK RIGHT MAIN QUANTITY", 0),
                  Tank("FUEL TANK RIGHT AUX QUANTITY", 0),
                  Tank("FUEL TANK RIGHT TIP QUANTITY", 0)>>]

\* &FuelRequest{FuelLevelLeftMain: left, FuelLevelRightMain: right}
FuelRequest(left, right) ==
    [ptrs |-> 1, name |-> "FuelRequest",
     fields |-> <<Envelope,
                  Tank("FUEL TANK LEFT MAIN QUANTITY", left),
                  Tank("FUEL TANK RIGHT MAIN QUANTITY", right)>>]

\* The type parameter of refuel's IsReport and RequestData calls.
FuelReportType == [ptrs |-> 0, name |-> "FuelReport"]

\* sc.RegisterDataDefinition(a) called with registry m, every native call of
\* it answered with status s: the registry, the GetDefineID call, the native
\* calls, the entry of the registration, the error.
Registering(m, a, s) ==
    LET g == GetDefineIDResult(m, StructName(TypeOf(a)))
        r == RegisterFields(ValueElem(a), g.id, 1,
                            [k \in 1..Len(a.fields) |-> s], <<>>)
    IN  [map |-> g.map,
         call |-> [name |-> StructName(TypeOf(a)), id |-> g.id],
         native |-> r.native,
         entry |-> [a |-> a, id |-> g.id, adds |-> r.native, err |-> r.err],
         err |-> r.err]

\* The calls made on the session after the registrations.
LaterCalls == Len(calls) - Len(registered)

\* refuel.Start: the registration of FuelReport, return on its error, the
\* registration of FuelRequest, return on its error, the goroutine spawned
\* with ctx2 and sc.  The simulator answers the native calls of one Start
\* with the same status s; the goroutine the first such Start spawns is
\* followed.
RefuelStart ==
    /\ StartCalled
    /\ \E s \in Statuses :
         LET r1 == Registering(defineMap, FuelReport, s)
             r2 == Registering(r1.map, FuelRequest(0, 0), s)
         IN  IF r1.err # Nil
             THEN /\ defineMap' = r1.map
                  /\ calls' = Append(calls, r1.call)
                  /\ native' = r1.native
                  /\ registered' = Append(registered, r1.entry)
                  /\ taskPc' = taskPc
             ELSE /\ defineMap' = r2.map
                  /\ calls' = calls \o <<r1.call, r2.call>>
                  /\ native' = r1.native \o r2.native
                  /\ registered' = registered \o <<r1.entry, r2.entry>>
                  /\ taskPc' = IF r2.err = Nil /\ taskPc = "none"
                               THEN "select" ELSE taskPc
    /\ UNCHANGED <<lastEventID, eventCalls, op, opRet, taskCall>>

\* refuel.Update: IsReport[FuelReport] on the message; for a report that
\* shows a main tank below the minimum (low), with gallons to add, SetData of
\* a FuelRequest, whose error is logged.
RefuelUpdate ==
    /\ UpdateCalled
    /\ LaterCalls < MaxReceiverCalls
    /\ \E low \in BOOLEAN : \E r1 \in Statuses :
         LET g == GetDefineIDResult(defineMap, StructName(TypedNil(FuelReportType)))
             is == SameDefineID(msg, g.id)
             left == Gals
             right == Gals
             tq == FuelRequest(left, right)
             g2 == GetDefineIDResult(g.map, StructName(TypeOf(tq)))
             set == SetDataFrom(tq, g2.id, r1)
         IN  IF is /\ low /\ ~(left = 0 /\ right = 0)
             THEN /\ defineMap' = g2.map
                  /\ calls' = calls \o
                        <<[name |-> StructName(TypedNil(FuelReportType)), id |-> g.id],
                          [name |-> StructName(TypeOf(tq)), id |-> g2.id]>>
                  /\ native' = set.native
             ELSE /\ defineMap' = g.map
                  /\ calls' = Append(calls,
                        [name |-> StructName(TypedNil(FuelReportType)), id |-> g.id])
                  /\ native' = <<>>
    /\ UNCHANGED <<lastEventID, eventCalls, op, opRet, registered>>
    /\ UNCHANGED taskVars

\* The records a receiver built like refuel may use as its request: any
\* declaration of FuelRequest, handed over by pointer.
RequestRecords == {a \in Records : a.ptrs = 1 /\ a.name = "FuelRequest"}

\* The end of such a receiver's Start, once its last registration has
\* returned: after an error Start returns; after the second registration
\* went well it spawns its goroutine with ctx2 and sc, and returns.  No call
\* of the receiver is in progress then.
StartReturns ==
    /\ op.name = "RegisterDataDefinition"
    /\ opRet.state = "returned"
    /\ Len(registered) = 2 \/ opRet.err # Nil
    /\ op' = NoOp
    /\ taskPc' = IF opRet.err = Nil THEN "select" ELSE taskPc
    /\ UNCHANGED <<defineMap, lastEventID, calls, eventCalls, native, opRet,
                   registered, taskCall>>
    /\ UNCHANGED connectorVars

\* The calls of such a receiver, one at a time: its next call on the session
\* once the last has returned.  Start goes on to its second registration;
\* after Start has returned, Update checks each message with
\* IsReport[FuelReport] and, for a report that calls for it, sets its
\* request.  A panic in SetData ends the program.
NextCall ==
    /\ opRet.state = "returned"
    /\ \/ /\ op.name = "RegisterDataDefinition"
          /\ Len(registered) = 1
          /\ opRet.err = Nil
          /\ \E a \in RequestRecords :
               \E r \in [1..(Len(a.fields) - 1) -> Statuses] :
                  op' = [name |-> "RegisterDataDefinition", a |-> a, r1s |-> r]
       \/ /\ op.name = "IsReport"
          /\ opRet.ok
          /\ Len(registered) = 2
          /\ LaterCalls < MaxReceiverCalls
          /\ \E r1 \in Statuses :
                op' = [name |-> "SetData", fr |-> registered[2].a, r1 |-> r1]
       \/ /\ op.name \in {"none", "IsReport", "SetData"}
          /\ LaterCalls < MaxReceiverCalls
          /\ \E ppData \in Reports :
                op' = [name |-> "IsReport", T |-> FuelReportType, ppData |-> ppData]
    /\ native' = <<>>
    /\ opRet' = Pending
    /\ UNCHANGED <<defineMap, lastEventID, calls, eventCalls, registered>>
    /\ UNCHANGED connectorVars
    /\ UNCHANGED taskVars

\* The session the goroutine holds has been closed: by connect's deferred
\* Close.
TaskSessionClosed == sessOpen = 0

\* The goroutine's select: the cases that are ready. The time.After case is
\* ready once its 5 seconds have passed, which any amount of time allows.
TaskSelectCases(done) ==
    {b \in {"return", "call"} : (b = "return" /\ done) \/ b = "call"}

\* for { select { case <-ctx.Done(): return; case <-time.After(...): ... } }:
\* the goroutine's select takes one of its ready cases.
TaskSelect ==
    /\ taskPc = "select"
    /\ \E b \in TaskSelectCases(ctx2Done) :
          taskPc' = IF b = "return" THEN "stopped" ELSE "call"
    /\ UNCHANGED <<defineMap, lastEventID, calls, eventCalls, recordVars, taskCall>>
    /\ UNCHANGED connectorVars

\* The time.After case: simconnect.RequestData[FuelReport](sc), whatever
\* connect has done to ctx2 and sc since the select, and back to the select.
TaskRequestData ==
    /\ taskPc = "call"
    /\ LaterCalls < MaxReceiverCalls
    /\ \E r1 \in Statuses :
          LET g == GetDefineIDResult(defineMap, StructName(TypedNil(FuelReportType)))
              reqId == g.id
              call == RequestDataOnSimObjectType(reqId, g.id, 0,
                                                 SIMOBJECT_TYPE_USER, r1)
          IN  /\ defineMap' = g.map
              /\ calls' = Append(calls, [name |-> StructName(TypedNil(FuelReportType)),
                                         id |-> g.id])
              /\ taskCall' = [state |-> IF TaskSessionClosed THEN "closed" ELSE "open",
                              native |-> <<call>>]
    /\ taskPc' = "select"
    /\ UNCHANGED <<lastEventID, eventCalls, recordVars>>
    /\ UNCHANGED connectorVars

\* The values the receivers hand to the registry: pointers to their records.
ReceiverTypes == [ptrs : {1}, name : RecordNames]

\* A receiver's Start or Update calls GetDefineID or GetEventID on the session
\* connect handed it.
ReceiverCall ==
    /\ cpc \in {"starting", "update"}
    /\ Len(calls) + Len(eventCalls) < MaxCycleCalls
    /\ \/ \E a \in ReceiverTypes : GetDefineID(a)
       \/ GetEventID

---------------------------------------------------------------------------
(* Specifications. *)

\* A Connector built by NewConnector, entered through Start or StartReconnect.
Init ==
    /\ caller \in {"Start", "StartReconnect"}
    /\ ctxDone = FALSE
    /\ rpc = IF caller = "Start" THEN "start" ELSE "top"
    /\ cpc = IF caller = "Start" THEN "new" ELSE "idle"
    /\ cancel2 = FALSE
    /\ defers = <<>>
    /\ sessOpen = 0
    /\ opened = FALSE
    /\ closes = 0
    /\ connRet = "none"
    /\ ri = 1
    /\ startLog = <<>>
    /\ updLog = <<>>
    /\ tickerOn = FALSE
    /\ tick = FALSE
    /\ tickFetches = 0
    /\ msg = NoMsg
    /\ err = Nil
    /\ cbCalls = 0
    /\ bo = NewReconnectBackOff
    /\ nxt = 0
    /\ base = 0
    /\ d = 0
    /\ timerFired = FALSE
    /\ defineMap = NewDefineMap
    /\ lastEventID = 0
    /\ calls = <<>>
    /\ eventCalls = <<>>
    /\ op = NoOp
    /\ native = <<>>
    /\ opRet = Pending
    /\ registered = <<>>
    /\ taskPc = "none"
    /\ taskCall = NoTaskCall

Program ==
    \/ ReconnectTop
    \/ ConnectOpen
    \/ ReceiverStart
    \/ NewTicker
    \/ Poll
    \/ Dispatch
    \/ ReceiverUpdate
    \/ UpdateDone
    \/ HandleDispatch
    \/ RunDefer
    \/ ConnectReturn
    \/ ReconnectBackoff
    \/ ReconnectWait

Next ==
    \/ Program
    \/ Cancel
    \/ TimerFire
    \/ TickerFire

Spec == Init /\ [][Next]_vars

\* The goroutine that runs the connector is scheduled whenever it can take a
\* step, and a started timer or ticker fires.
FairSpec ==
    /\ Spec
    /\ WF_vars(Program)
    /\ WF_vars(TimerFire)
    /\ WF_vars(TickerFire)

\* connect's select takes the ctx.Done() case.
PollDone == Poll /\ cpc' = "defer"

\* FairSpec, with a select that does not pass over a case that is ready
\* again and again: Go picks among the ready cases at random.
FairSelectSpec ==
    /\ FairSpec
    /\ SF_vars(PollDone)

\* A session just opened by connect, its receivers' Start about to run.
InitSession ==
    /\ caller = "Start"
    /\ ctxDone = FALSE
    /\ rpc = "start"
    /\ cpc = "starting"
    /\ cancel2 = FALSE
    /\ defers = DeferClose(<<"cancel">>)
    /\ sessOpen = 1
    /\ opened = TRUE
    /\ closes = 0
    /\ connRet = "none"
    /\ ri = 1
    /\ startLog = <<>>
    /\ updLog = <<>>
    /\ tickerOn = FALSE
    /\ tick = FALSE
    /\ tickFetches = 0
    /\ msg = NoMsg
    /\ err = Nil
    /\ cbCalls = 0
    /\ bo = NewReconnectBackOff
    /\ nxt = 0
    /\ base = 0
    /\ d = 0
    /\ timerFired = FALSE
    /\ defineMap = NewDefineMap
    /\ lastEventID = 0
    /\ calls = <<>>
    /\ eventCalls = <<>>
    /\ op = NoOp
    /\ native = <<>>
    /\ opRet = Pending
    /\ registered = <<>>
    /\ taskPc = "none"
    /\ taskCall = NoTaskCall

NextSession ==
    \/ \E a \in InputTypes : GetDefineID(a)
    \/ GetEventID

SpecSession == InitSession /\ [][NextSession]_vars

\* An open session that has seen some GetDefineID calls, and one record
\* operation called on it.
InitRecord ==
    /\ caller = "Start"
    /\ ctxDone = FALSE
    /\ rpc = "start"
    /\ cpc = "starting"
    /\ cancel2 = FALSE
    /\ defers = DeferClose(<<"cancel">>)
    /\ sessOpen = 1
    /\ opened = TRUE
    /\ closes = 0
    /\ connRet = "none"
    /\ ri = 1
    /\ startLog = <<>>
    /\ updLog = <<>>
    /\ tickerOn = FALSE
    /\ tick = FALSE
    /\ tickFetches = 0
    /\ msg = NoMsg
    /\ err = Nil
    /\ cbCalls = 0
    /\ bo = NewReconnectBackOff
    /\ nxt = 0
    /\ base = 0
    /\ d = 0
    /\ timerFired = FALSE
    /\ \E names \in PriorCalls :
          LET prior == AfterCalls(NewDefineMap, <<>>, names)
          IN  /\ defineMap = prior.map
              /\ calls = prior.calls
    /\ lastEventID = 0
    /\ eventCalls = <<>>
    /\ \/ \E a \in Records : \E r \in [1..(Len(a.fields) - 1) -> Statuses] :
             op = [name |-> "RegisterDataDefinition", a |-> a, r1s |-> r]
       \/ \E fr \in Records : \E r1 \in Statuses :
             op = [name |-> "SetData", fr |-> fr, r1 |-> r1]
       \/ \E T \in ReportTypes : \E ppData \in Reports :
             op = [name |-> "IsReport", T |-> T, ppData |-> ppData]
       \/ \E T \in ReportTypes : \E r1 \in Statuses :
             op = [name |-> "RequestData", T |-> T, r1 |-> r1]
    /\ native = <<>>
    /\ opRet = Pending
    /\ registered = <<>>
    /\ taskPc = "none"
    /\ taskCall = NoTaskCall

\* A session just opened by connect, and a receiver built like refuel whose
\* Start makes its first call on it.
InitReceiver ==
    /\ caller = "Start"
    /\ ctxDone = FALSE
    /\ rpc = "start"
    /\ cpc = "starting"
    /\ cancel2 = FALSE
    /\ defers = DeferClose(<<"cancel">>)
    /\ sessOpen = 1
    /\ opened = TRUE
    /\ closes = 0
    /\ connRet = "none"
    /\ ri = 1
    /\ startLog = <<>>
    /\ updLog = <<>>
    /\ tickerOn = FALSE
    /\ tick = FALSE
    /\ tickFetches = 0
    /\ msg = NoMsg
    /\ err = Nil
    /\ cbCalls = 0
    /\ bo = NewReconnectBackOff
    /\ nxt = 0
    /\ base = 0
    /\ d = 0
    /\ timerFired = FALSE
    /\ defineMap = NewDefineMap
    /\ calls = <<>>
    /\ lastEventID = 0
    /\ eventCalls = <<>>
    /\ \E s \in Statuses :
          op = [name |-> "RegisterDataDefinition", a |-> FuelReport,
                r1s |-> [k \in 1..Len(FuelReport.fields) |-> s]]
    /\ native = <<>>
    /\ opRet = Pending
    /\ registered = <<>>
    /\ taskPc = "none"
    /\ taskCall = NoTaskCall

\* A Connector whose receivers use the registry of the session of each cycle.
NextCycles ==
    \/ Next
    \/ ReceiverCall

SpecCycles == Init /\ [][NextCycles]_vars

\* A Connector built with refuel receivers (fuelhack), entered through Start.
InitTasks ==
    /\ Init
    /\ caller = "Start"

\* One connect-cycle of it: Start, connect, the receivers' callbacks, the
\* goroutine of the first receiver, the caller's cancel and the ticker.
NextTasks ==
    \/ ConnectOpen
    \/ RefuelStart
    \/ NewTicker
    \/ Poll
    \/ Dispatch
    \/ RefuelUpdate
    \/ UpdateDone
    \/ HandleDispatch
    \/ RunDefer
    \/ ConnectReturn
    \/ Cancel
    \/ TickerFire
    \/ TaskSelect
    \/ TaskRequestData

SpecTasks == InitTasks /\ [][NextTasks]_vars

NextRecord ==
    \/ RegisterDataDefinition
    \/ SetData
    \/ IsReport
    \/ RequestData

SpecRecord == InitRecord /\ [][NextRecord]_vars

\* A receiver's calls on the session, one after the other.
NextReceiver ==
    \/ RegisterDataDefinition
    \/ IsReport
    \/ SetData
    \/ StartReturns
    \/ NextCall
    \/ TaskSelect
    \/ TaskRequestData

SpecReceiver == InitReceiver /\ [][NextReceiver]_vars

---------------------------------------------------------------------------
(* Properties. *)

\* C1: in one session, two GetDefineID calls with the same shape name return
\* the same identifier, and a call with a shape name not seen before returns an
\* identifier that no earlier call returned for another shape name.
C1_SameNameSameIdNewNameNewId ==
    \A j \in 1..Len(calls) : \A i \in 1..(j - 1) :
        /\ calls[i].name = calls[j].name => calls[i].id = calls[j].id
        /\ ( /\ calls[i].name # calls[j].name
             /\ \A k \in 1..(j - 1) : calls[k].name # calls[j].name )
           => calls[i].id # calls[j].id

\* C2: every successful open of a connect-cycle is followed by exactly one
\* Close before connect returns, no Close is issued when the open failed, and
\* no two sessions are ever open at the same time.
C2_CloseOnEveryExit ==
    /\ sessOpen <= 1
    /\ closes <= 1
    /\ ~opened => closes = 0
    /\ cpc = "idle" => sessOpen = 0
    /\ (cpc = "defer" /\ defers = <<>>) =>
          /\ closes = (IF opened THEN 1 ELSE 0)
          /\ sessOpen = 0
    /\ (opened /\ closes = 0) => sessOpen = 1

\* A reconnecting connector's cycle ended by a fatal dispatch error, its
\* session closed once, about to return.
C2_Witness ==
    /\ caller = "StartReconnect"
    /\ cpc = "defer"
    /\ defers = <<>>
    /\ opened
    /\ closes = 1
    /\ connRet = "cannot dispatch"

\* s is a prefix of t.
IsPrefix(s, t) == Len(s) <= Len(t) /\ \A i \in 1..Len(s) : s[i] = t[i]

\* C3: in a cycle whose open succeeds, Start is invoked once on each registered
\* receiver, in registration order, all of them returned before the first
\* GetNextDispatch of the cycle; in a cycle whose open fails, on none.
C3_StartsInOrderBeforeFirstFetch ==
    /\ IsPrefix(startLog, Registered)
    /\ ~opened => startLog = <<>>
    /\ cpc = "starting" => Len(startLog) = ri - 1
    /\ cpc \in {"poll", "dispatch", "update", "handle"} => startLog = Registered
    /\ (cpc = "defer" /\ opened) => startLog = Registered
    /\ (msg # NoMsg \/ tickFetches > 0) => startLog = Registered

\* The first fetch of a cycle is about to happen, every receiver started.
C3_Witness ==
    /\ cpc = "dispatch"
    /\ msg = NoMsg
    /\ startLog = Registered
    /\ Len(startLog) = NumReceivers

\* The last fetched message is a simobject-data-by-type record.
IsData(m) == m # NoMsg /\ m.r1 >= 0 /\ m.id = RECV_ID_SIMOBJECT_DATA_BYTYPE

\* The Update calls a data record is owed: every receiver, in registration order.
UpdatesOwed(m) == [i \in 1..NumReceivers |-> [r |-> Registered[i], defineID |-> m.defineID]]

\* C4: each tick of the poll loop performs exactly one GetNextDispatch; for a
\* data record Update is invoked once on every receiver in registration order
\* with that record, all of them returned before the next fetch.
C4_OneFetchPerTickUpdatesInOrder ==
    /\ cpc = "dispatch" => tickFetches = 0
    /\ cpc \in {"update", "handle"} => tickFetches = 1
    /\ tickFetches <= 1
    /\ IsPrefix(updLog, UpdatesOwed(msg))
    /\ ~IsData(msg) => updLog = <<>>
    /\ cpc = "update" => IsData(msg) /\ Len(updLog) = ri - 1
    /\ (IsData(msg) /\ cpc \in {"handle", "poll", "dispatch", "defer"})
          => updLog = UpdatesOwed(msg)

\* A data record has been delivered to every receiver and the loop waits for
\* the next tick.
C4_Witness ==
    /\ cpc = "poll"
    /\ IsData(msg)
    /\ msg.defineID = 1
    /\ Len(updLog) = NumReceivers
    /\ tickFetches = 1

\* C5: dispatchFn invokes its callback exactly once when the status is not
\* negative and the message is a simobject-data-by-type record, and not at all
\* otherwise; an open message yields nil, not an error.
C5_CallbackOnlyForData ==
    msg # NoMsg =>
        /\ cbCalls = (IF msg.r1 >= 0 /\ msg.id = RECV_ID_SIMOBJECT_DATA_BYTYPE THEN 1 ELSE 0)
        /\ (cbCalls = 0) = (updLog = <<>> /\ cpc # "update")
        /\ (msg.r1 >= 0 /\ msg.id = RECV_ID_OPEN) => err = Nil

\* dispatchFn has returned nil for an open message without calling back.
C5_Witness ==
    /\ cpc = "handle"
    /\ msg.r1 = 0
    /\ msg.id = RECV_ID_OPEN
    /\ err = Nil
    /\ cbCalls = 0

\* C6: for an exception message with exception code e and send ID r, dispatchFn
\* returns an error that carries exactly e as the exception and r as the
\* request ID, and does not invoke the callback.
C6_ExceptionErrorCarriesCodeAndRequest ==
    (msg # NoMsg /\ msg.r1 >= 0 /\ msg.id = RECV_ID_EXCEPTION) =>
        /\ err # Nil
        /\ err.text = <<"SIMCONNECT_RECV_ID_EXCEPTION: ",
                        "Exception (", msg.exception, "), ReqID (", msg.sendID, ")">>
        /\ err.chain = {<<"RecvException", "", msg.exception, msg.sendID>>}
        /\ cbCalls = 0
        /\ updLog = <<>>

\* dispatchFn has returned the error of an exception 3 for request 42.
C6_Witness ==
    /\ cpc = "handle"
    /\ msg.id = RECV_ID_EXCEPTION
    /\ msg.exception = 3
    /\ msg.sendID = 42
    /\ err # Nil

\* The fetch call itself failed, with whatever negative status.
FetchFailed(m) == m # NoMsg /\ m.r1 < 0

\* The fetch call failed with a status other than E_FAIL.
FetchFailedHard(m) == m # NoMsg /\ m.r1 < 0 /\ m.r1 # E_FAIL_INT32

\* The message fetched is of none of the kinds dispatchFn knows.
UnknownKind(m) ==
    /\ m # NoMsg
    /\ m.r1 >= 0
    /\ m.id \notin {RECV_ID_EXCEPTION, RECV_ID_OPEN, RECV_ID_EVENT,
                    RECV_ID_SIMOBJECT_DATA_BYTYPE}

\* connect is past its check of the last dispatch and has left the poll loop
\* with an error.
CycleEndsWithDispatchError ==
    /\ cpc \in {"handle", "defer"}
    /\ cpc = "defer" => connRet = "cannot dispatch"

\* C7 as stated: whenever a tick's dispatch fails in the fetch call itself or
\* fetches a message of an unknown kind, connect stops ticking and returns an
\* error, with no further fetch in that cycle.
C7_FetchFailureOrUnknownKindEndsCycle ==
    (FetchFailed(msg) \/ UnknownKind(msg)) => CycleEndsWithDispatchError

\* C7, amended: a fetch that fails with a negative status other than E_FAIL
\* ends the cycle: connect stops ticking and returns an error, with no further
\* fetch in that cycle. A fetch that fails with E_FAIL, or a message of an
\* unknown kind, does not: after it the cycle ends only by cancellation.
C7_OnlyHardFetchFailureEndsCycle ==
    /\ FetchFailedHard(msg) => CycleEndsWithDispatchError
    /\ (msg # NoMsg /\ ~FetchFailedHard(msg) /\ cpc = "defer") => connRet = "nil"
    /\ (cpc = "defer" /\ connRet = "cannot dispatch") => FetchFailedHard(msg)

\* The fetch failed with status -1 and connect is returning the error.
C7_Witness ==
    /\ msg.r1 = -1
    /\ cpc = "defer"
    /\ connRet = "cannot dispatch"

\* C8: StartReconnect returns only after the outer cancellation has fired, and
\* while it has not fired every connect-cycle that ends is eventually followed
\* by another open attempt.
C8_RetriesUntilCancelled ==
    /\ []((caller = "StartReconnect" /\ rpc = "returned") => ctxDone)
    /\ (caller = "StartReconnect" /\ rpc = "after")
          ~> (ctxDone \/ (rpc = "start" /\ cpc = "new"))

\* A failed cycle is behind, its backoff delay over, and the loop is back at
\* the call of Start with the outer context still live.
C8_Witness ==
    /\ caller = "StartReconnect"
    /\ rpc = "start"
    /\ cpc = "new"
    /\ connRet = "cannot dispatch"
    /\ nxt > 0
    /\ ~ctxDone

\* C9: a cancellation that fires during the backoff wait, or before the next
\* iteration's check, ends StartReconnect: the wait does not block on the rest
\* of the delay, and no connect-cycle is started.
C9_CancelEndsBackoffWait ==
    /\ []((caller = "StartReconnect" /\ rpc = "wait" /\ ctxDone) => ENABLED ReconnectWait)
    /\ [][(caller = "StartReconnect" /\ ctxDone /\ rpc \in {"wait", "top"}) =>
             /\ rpc' \in {"wait", "top", "returned"}
             /\ cpc' = "idle"
             /\ (rpc = "wait" /\ ~timerFired /\ rpc' # rpc) => rpc' = "returned"]_vars

\* StartReconnect has returned from a wait whose delay was not over.
C9_Witness ==
    /\ caller = "StartReconnect"
    /\ rpc = "returned"
    /\ ctxDone
    /\ nxt > 0
    /\ ~timerFired
    /\ cpc = "idle"

\* StartReconnect draws the delay after a cycle of less than 90 seconds, a
\* delay having been drawn before.
DrawAfterShortCycle ==
    /\ rpc = "after"
    /\ rpc' = "wait"
    /\ d' < ResetThreshold
    /\ base > 0

\* C10 as stated: after a cycle of less than 90 seconds the delay waited is
\* strictly greater than the delay waited before, until the maximum interval
\* is reached.
C10_DelayStrictlyGrows ==
    [][(DrawAfterShortCycle /\ base < DefaultMaxInterval) => nxt' > nxt]_vars

\* C10, amended: after a cycle of less than 90 seconds the delay is drawn
\* between 0.5 and 1.5 times the backoff interval, and it is that interval
\* which is strictly greater than the one the delay before was drawn around,
\* until it has reached the maximum interval, where it stays.
C10_IntervalStrictlyGrows ==
    [][DrawAfterShortCycle =>
          /\ base < DefaultMaxInterval => base' > base
          /\ base = DefaultMaxInterval => base' = DefaultMaxInterval
          /\ base' <= DefaultMaxInterval
          /\ RandomizationDen * nxt' >= base' - 1
          /\ RandomizationDen * nxt' <= (RandomizationDen + 1) * base' + RandomizationDen]_vars

\* The second delay has been drawn, after a short cycle, around a larger interval.
C10_Witness ==
    /\ rpc = "wait"
    /\ d < ResetThreshold
    /\ base > DefaultInitialInterval
    /\ base < DefaultMaxInterval
    /\ nxt < DefaultInitialInterval

\* C11: after a cycle of more than 90 seconds the backoff is reset before the
\* next delay is drawn, so that delay is drawn as a new policy's first delay
\* is, around the initial interval, whatever the interval had grown to; a
\* cycle of 90 seconds or less does not reset the backoff.
C11_LongCycleResetsBackoff ==
    [][(rpc = "after" /\ rpc' = "wait") =>
          /\ d' > ResetThreshold =>
                /\ base' = DefaultInitialInterval
                /\ RandomizationDen * nxt' >= DefaultInitialInterval - 1
                /\ RandomizationDen * nxt' <=
                      (RandomizationDen + 1) * DefaultInitialInterval + RandomizationDen
                /\ bo'.currentInterval > DefaultInitialInterval
          /\ d' <= ResetThreshold =>
                /\ base' = bo.currentInterval
                /\ base > 0 => (base' > base \/ base' = DefaultMaxInterval)]_vars

\* The delay after a long cycle has been drawn around the initial interval.
C11_Witness ==
    /\ caller = "StartReconnect"
    /\ rpc = "wait"
    /\ d > ResetThreshold
    /\ base = DefaultInitialInterval
    /\ bo.currentInterval > DefaultInitialInterval
    /\ connRet = "cannot dispatch"

\* RegisterDataDefinition has returned.
Registered1 == op.name = "RegisterDataDefinition" /\ opRet.state = "returned"

\* The fields of index 1 and up that have no name tag.
UntaggedFrom1 ==
    {j \in 1..(Len(op.a.fields) - 1) : op.a.fields[j + 1].nameTag = ""}

\* The fields of index 1 and up whose type is neither float64 nor an array.
UnsupportedFrom1 ==
    {j \in 1..(Len(op.a.fields) - 1) :
        op.a.fields[j + 1].kind \notin {"float64", "array"}}

\* The native calls were issued for ascending fields.
NativeAscending ==
    \A k \in 1..(Len(native) - 1) : native[k].field < native[k + 1].field

\* C12: RegisterDataDefinition processes the fields in declaration order from
\* index 1 on; where the first field without a name tag is field j, it returns
\* an error and has issued add-definition calls only for fields 1..j-1 (for
\* each of them, unless a field type before j has no data type), none for
\* field 0, field j or a later field.
C12_MissingNameTagFailsFast ==
    (Registered1 /\ UntaggedFrom1 # {}) =>
        LET j == CHOOSE x \in UntaggedFrom1 : \A y \in UntaggedFrom1 : x <= y
        IN  /\ opRet.err # Nil
            /\ \A k \in 1..Len(native) : native[k].field \in 1..(j - 1)
            /\ NativeAscending
            /\ (\A y \in UnsupportedFrom1 : y > j) =>
                  /\ opRet.err.text = <<j, " name tag not found">>
                  /\ Len(native) = j - 1
                  /\ \A k \in 1..Len(native) :
                        /\ native[k].field = k
                        /\ native[k].name = op.a.fields[k + 1].nameTag

\* A record whose field 2 is the first without a name tag, after a tagged
\* field 1: one add-definition call has been issued, for field 1.
C12_Witness ==
    /\ Registered1
    /\ Len(op.a.fields) = 3
    /\ op.a.fields[1].nameTag = ""
    /\ op.a.fields[2].nameTag # ""
    /\ op.a.fields[3].nameTag = ""
    /\ opRet.err # Nil
    /\ Len(native) = 1
    /\ native[1].field = 1

\* C13 (as claimed): when the native add-definition call for a field returns
\* a failure status, RegisterDataDefinition returns an error and that call is
\* the last one it issued.
C13_NativeFailureStopsRegistration ==
    Registered1 =>
        \A k \in 1..Len(native) :
            native[k].r1 < 0 => (opRet.err # Nil /\ k = Len(native))

\* SetData has ended, by returning or by a panic.
SetDataEnded == op.name = "SetData" /\ opRet.state # "pending"

\* The fields of SetData's record that carry a name tag, in declaration order.
TaggedFields == SelectSeq(op.fr.fields, LAMBDA f : f.nameTag # "")

\* C14 (as claimed): SetData on a record without name-tagged fields returns an
\* error to its caller and issues no native set-data call.
C14_EmptyPayloadIsAnError ==
    (SetDataEnded /\ Len(TaggedFields) = 0) =>
        /\ opRet.state = "returned"
        /\ opRet.err # Nil
        /\ Len(native) = 0

\* C15: SetData on a record with a name-tagged field that is not a float64
\* returns an error and issues no native set-data call, wherever that field
\* stands and whatever the other fields are.
C15_NonFloatFieldIsAnError ==
    (SetDataEnded /\ \E k \in 1..Len(TaggedFields) : TaggedFields[k].kind # "float64") =>
        /\ opRet.state = "returned"
        /\ opRet.err # Nil
        /\ Len(native) = 0

\* The offending field is the last one, after two tagged float64 fields.
C15_Witness ==
    /\ SetDataEnded
    /\ Len(op.fr.fields) = 3
    /\ Len(TaggedFields) = 3
    /\ TaggedFields[1].kind = "float64"
    /\ TaggedFields[2].kind = "float64"
    /\ TaggedFields[3].kind = "array"
    /\ opRet.err # Nil
    /\ Len(native) = 0

\* C16: for a record with N >= 1 name-tagged fields, all float64, SetData
\* issues exactly one native set-data call: to the user's object, with the
\* registry's identifier of the record's type name, a size of 8*N bytes and
\* the N tagged values in declaration order, the untagged fields left out.
C16_SetDataIssuesOnePackedCall ==
    (/\ SetDataEnded
     /\ Len(TaggedFields) >= 1
     /\ \A k \in 1..Len(TaggedFields) : TaggedFields[k].kind = "float64") =>
        /\ opRet.state = "returned"
        /\ Len(native) = 1
        /\ native[1].fn = "SimConnect_SetDataOnSimObject"
        /\ native[1].objectID = OBJECT_ID_USER
        /\ native[1].defineID = defineMap[op.fr.name]
        /\ native[1].defineID = calls[Len(calls)].id
        /\ native[1].size = 8 * Len(TaggedFields)
        /\ native[1].data = [k \in 1..Len(TaggedFields) |-> TaggedFields[k].value]
        /\ (opRet.err = Nil) <=> (native[1].r1 >= 0)

\* Two tagged float64 fields of different value around an untagged float64,
\* in a session that gave the record's type the identifier 1.
C16_Witness ==
    /\ SetDataEnded
    /\ Len(op.fr.fields) = 3
    /\ op.fr.fields[1].nameTag # "" /\ op.fr.fields[1].value = 2
    /\ op.fr.fields[2].nameTag = "" /\ op.fr.fields[2].kind = "float64"
    /\ op.fr.fields[3].nameTag # "" /\ op.fr.fields[3].value = 1
    /\ Len(native) = 1
    /\ native[1].data = <<2, 1>>
    /\ native[1].size = 16
    /\ native[1].defineID = 1
    /\ opRet.err = Nil

\* C17: IsReport[T] returns true, with the message viewed as T, exactly when
\* the message's definition identifier is the one the session's registry
\* resolves for T's name, and (nil, false) for every other identifier.
C17_IsReportIffRegistryId ==
    (op.name = "IsReport" /\ opRet.state = "returned") =>
        /\ opRet.ok <=> (op.ppData.defineID = defineMap[op.T.name])
        /\ op.ppData.defineID = calls[Len(calls)].id =>
              (opRet.ok /\ opRet.view = [type |-> op.T.name, ppData |-> op.ppData])
        /\ op.ppData.defineID # calls[Len(calls)].id =>
              (~opRet.ok /\ opRet.view = NoView)

\* A message that carries FuelReport's identifier 1 is a report, in a session
\* that had given 0 to FuelRequest.
C17_Witness ==
    /\ op.name = "IsReport"
    /\ opRet.state = "returned"
    /\ op.T.name = "FuelReport"
    /\ op.ppData.defineID = 1
    /\ "FuelRequest" \in DOMAIN defineMap
    /\ defineMap["FuelRequest"] = 0
    /\ opRet.ok
    /\ opRet.view.type = "FuelReport"

\* The names GetDefineID was called with in calls 1..j of this session.
NamesUpTo(j) == {calls[i].name : i \in 1..j}

\* C18 (as claimed): the k-th distinct shape name passed to GetDefineID gets
\* the identifier k-1, so the identifiers in use are exactly 0..n-1 for the n
\* distinct names seen and the next-identifier counter is n.
C18_IdentifiersAreDense ==
    LET n == Cardinality(NamesUpTo(Len(calls)))
    IN  /\ \A j \in 1..Len(calls) :
              calls[j].name \notin NamesUpTo(j - 1) =>
                  calls[j].id = Cardinality(NamesUpTo(j)) - 1
        /\ {calls[j].id : j \in 1..Len(calls)} = 0..(n - 1)
        /\ defineMap[LastKey] = n

\* C19: the n-th GetEventID call of a session returns n-1 whatever GetDefineID
\* calls came in between; GetEventID leaves the name-to-identifier map and its
\* next-identifier counter as they were, and GetDefineID leaves the event
\* counter as it was.
C19_EventCounterIsSeparate ==
    /\ [](\A n \in 1..Len(eventCalls) : eventCalls[n] = n - 1)
    /\ [][/\ Len(eventCalls') > Len(eventCalls) =>
                (defineMap' = defineMap /\ lastEventID' = lastEventID + 1)
          /\ Len(calls') > Len(calls) => lastEventID' = lastEventID]_vars

\* Two event identifiers drawn in a session that also allocated two
\* data-definition identifiers.
C19_Witness ==
    /\ eventCalls = <<0, 1>>
    /\ Len(calls) = 2
    /\ calls[1].id = 0
    /\ calls[2].id = 1
    /\ lastEventID = 2
    /\ defineMap[LastKey] = 2

\* C20: no registry state survives a reconnect: each connect-cycle opens a
\* session whose registry is empty whatever the session before it had
\* allocated, so the first GetDefineID and the first GetEventID of every
\* cycle return 0.
C20_EachCycleStartsEmpty ==
    /\ [](/\ Len(calls) > 0 => calls[1].id = 0
          /\ Len(eventCalls) > 0 => eventCalls[1] = 0)
    /\ [][(cpc = "new" /\ cpc' = "starting") =>
             /\ defineMap' = [k \in {LastKey} |-> 0]
             /\ lastEventID' = 0
             /\ calls' = <<>>
             /\ eventCalls' = <<>>]_vars

\* A cycle entered after a backoff wait, in which the receivers have drawn
\* their first data-definition and event identifiers.
C20_Witness ==
    /\ caller = "StartReconnect"
    /\ base > 0
    /\ opened
    /\ cpc \in {"starting", "update"}
    /\ Len(calls) > 0
    /\ calls[1].id = 0
    /\ Len(eventCalls) > 0
    /\ eventCalls[1] = 0

\* connect is between client.New's success and its return statement: the
\* receivers run with this cycle's ctx2.
CycleRunning == cpc \in {"starting", "poll", "dispatch", "update", "handle"}

\* C21: the signal handed to the receivers belongs to one connect-cycle: it is
\* cancelled when connect has returned, whatever made it return; it is
\* cancelled whenever the outer signal is; cancelling it leaves the outer
\* signal as it was; and while a cycle runs, also one that follows a failed
\* cycle, the signal is cancelled only if the outer signal is.
C21_CycleSignalIsScoped ==
    /\ []((cpc = "idle" /\ connRet # "none") => ctx2Done)
    /\ [](ctxDone => ctx2Done)
    /\ [][cancel2' # cancel2 => ctxDone' = ctxDone]_vars
    /\ [](CycleRunning => (ctx2Done <=> ctxDone))

\* After a cycle that ended with a dispatch error and a backoff wait, the
\* receivers of the next cycle have been started with a live signal.
C21_Witness ==
    /\ caller = "StartReconnect"
    /\ base > 0
    /\ cpc = "starting"
    /\ Len(startLog) = Len(receivers)
    /\ ~ctxDone
    /\ ~ctx2Done

\* C22: a call of Start makes at most one open attempt: an attempt is only
\* possible in the state Start was entered in, and once connect has returned,
\* also after an open failure or a fatal dispatch error, Start has returned.
C22_StartRunsOneCycle ==
    caller = "Start" =>
        /\ cpc = "new" => (rpc = "start" /\ connRet = "none" /\ sessOpen = 0 /\ ~opened)
        /\ rpc = "start" => cpc # "idle"
        /\ cpc = "idle" => (rpc = "returned" /\ connRet # "none")
        /\ sessOpen <= 1

\* Start has returned after a fatal dispatch error, the session closed.
C22_Witness ==
    /\ caller = "Start"
    /\ rpc = "returned"
    /\ cpc = "idle"
    /\ connRet = "cannot dispatch"
    /\ sessOpen = 0

\* C23: when connect checks the result of a fetch that returned E_FAIL, it goes
\* back to the poll loop with the session open and the ticker running; when
\* the fetch returned any other negative status, connect leaves the loop and
\* returns an error.
C23_NotReadyIsNotAFailure ==
    [][(cpc = "handle" /\ cpc' # "handle") =>
          /\ msg.r1 = E_FAIL_INT32 =>
                /\ cpc' = "poll"
                /\ connRet' = "none"
                /\ sessOpen' = 1
                /\ closes' = 0
                /\ tickerOn'
          /\ (msg.r1 < 0 /\ msg.r1 # E_FAIL_INT32) =>
                /\ cpc' = "defer"
                /\ connRet' = "cannot dispatch"]_vars

\* The poll loop waits for the next tick after a fetch that returned E_FAIL.
C23_Witness ==
    /\ cpc = "poll"
    /\ msg.r1 = E_FAIL_INT32
    /\ connRet = "none"
    /\ sessOpen = 1
    /\ tickerOn

\* The message fetched last is an exception record or an event record.
ExceptionOrEvent(m) ==
    m.r1 >= 0 /\ m.id \in {RECV_ID_EXCEPTION, RECV_ID_EVENT}

\* C24: an exception or event message does not end the poll loop: no
\* receiver's Update is invoked for it, connect goes back to the loop with the
\* session open, and the next tick is followed by another fetch (unless the
\* outer signal is cancelled first).
C24_ExceptionAndEventKeepTicking ==
    /\ []((CycleRunning /\ ExceptionOrEvent(msg)) =>
             (cpc # "update" /\ updLog = <<>> /\ cbCalls = 0 /\ sessOpen = 1))
    /\ [][(cpc = "handle" /\ cpc' # "handle" /\ ExceptionOrEvent(msg)) =>
             (cpc' = "poll" /\ connRet' = "none" /\ tickerOn')]_vars
    /\ (cpc = "poll" /\ ExceptionOrEvent(msg)) ~>
             (ctxDone \/ (cpc = "dispatch" /\ tickFetches = 0))

\* The tick after an exception message has been taken: the next fetch is due.
C24_Witness ==
    /\ cpc = "dispatch"
    /\ tickFetches = 0
    /\ msg.id = RECV_ID_EXCEPTION
    /\ msg.r1 >= 0
    /\ sessOpen = 1
    /\ ~ctxDone

\* C25: once the outer signal is cancelled, a connect-cycle in progress ends:
\* connect returns to Start with every session closed, and Start returns to
\* its caller; connect leaves the poll loop through the cancellation case only
\* when the outer signal is cancelled, and then returns nil.
C25_CancelledCycleEnds ==
    /\ (ctxDone /\ cpc # "idle") ~> (cpc = "idle" /\ sessOpen = 0)
    /\ (ctxDone /\ caller = "Start") ~> (rpc = "returned" /\ sessOpen = 0)
    /\ [][(cpc = "poll" /\ cpc' = "defer") => (ctxDone /\ connRet' = "nil")]_vars
    /\ []((cpc = "idle" /\ connRet = "nil") => (ctxDone /\ sessOpen = 0))

\* Start has returned after a cancellation that ended the poll loop.
C25_Witness ==
    /\ caller = "Start"
    /\ ctxDone
    /\ rpc = "returned"
    /\ connRet = "nil"
    /\ sessOpen = 0
    /\ ~tickerOn

\* C26 (as claimed): whenever the session of a connect-cycle has been closed,
\* the cycle's signal is already cancelled, so a task that checks the signal
\* before each call on the session never calls a closed session.
C26_ClosedOnlyAfterCancel ==
    /\ (opened /\ closes > 0) => ctx2Done
    /\ taskCall.state # "closed"

\* C27 (as claimed): IsReport and RequestData leave the session's registry
\* as it was, the name-to-identifier map and the next-identifier counter, for
\* every T, also one never handed to the registry before.
C27_IsReportAndRequestDataReadOnly ==
    [][(/\ op.name \in {"IsReport", "RequestData"}
        /\ opRet.state = "pending"
        /\ opRet'.state # "pending") => defineMap' = defineMap]_vars

\* The native calls of the last operation that add a definition, and those
\* that set data.
AddCalls == SelectSeq(native, LAMBDA c : c.fn = "SimConnect_AddToDataDefinition")

SetCalls == SelectSeq(native, LAMBDA c : c.fn = "SimConnect_SetDataOnSimObject")

\* The values SetData packed, none if it made no native call.
Packed == IF Len(SetCalls) = 0 THEN <<>> ELSE SetCalls[1].data

\* The registration of the record SetData was called with, if one has
\* returned without error.
Registration ==
    {r \in {registered[k] : k \in 1..Len(registered)} :
        r.a = op.fr /\ r.err = Nil}

\* The native calls that added a definition in registration r.
Adds(r) == SelectSeq(r.adds, LAMBDA c : c.fn = "SimConnect_AddToDataDefinition")

\* C28 (as claimed): for a record on which RegisterDataDefinition succeeds and
\* whose fields from index 1 on are float64, SetData packs exactly the fields
\* the registration added definitions for, in the same order, so the payload
\* size is 8 times the number of definitions, whether or not field 0 has a
\* name tag.
C28_RegistrationAndPayloadAgree ==
    (/\ op.name = "SetData"
     /\ opRet.state # "pending"
     /\ \A j \in 2..Len(op.fr.fields) :
           op.fr.fields[j].kind = "float64" /\ op.fr.fields[j].nameTag # "") =>
        \A r \in Registration :
           /\ Len(Adds(r)) = IF Len(op.fr.fields) = 0 THEN 0 ELSE Len(op.fr.fields) - 1
           /\ Len(Packed) = Len(Adds(r))
           /\ \A k \in 1..Len(Packed) :
                 /\ k <= Len(Adds(r))
                 /\ Packed[k] = op.fr.fields[Adds(r)[k].field + 1].value
           /\ Len(SetCalls) > 0 => SetCalls[1].size = 8 * Len(Adds(r))

=============================================================================
